---------------------------- MODULE Spec2Model ----------------------------
(***************************************************************************)
(* Model of src/Dialogs/Device/PortDataField.cpp (the port choice list of  *)
(* the device settings dialog) and of src/Screen/Brush.cpp.                *)
(*                                                                         *)
(* The port list is modelled for the Android debug build, the only build   *)
(* in which every #ifdef section of PortDataField.cpp is compiled          *)
(* (ANDROID, HAVE_POSIX, HAVE_INTERNAL_GPS, !NDEBUG).                      *)
(***************************************************************************)
EXTENDS Integers, Sequences, FiniteSets, TLC

\* ------------------------------------------------------------------------
\* Bounds of the model
\* ------------------------------------------------------------------------

\* value of AndroidIOIOUartPort::getNumberUarts()
NumberUarts == 2
\* number of SetPort / SetBluetoothPort calls after one FillPorts
MaxSetCalls == 1
\* number of Brush::set / Brush::reset calls on one Brush
MaxBrushCalls == 4
\* number of native brush handles the GDI can hand out
NumHandles == 3
\* number of colours
NumColors == 2

\* ------------------------------------------------------------------------
\* DeviceConfig::PortType (Device/Config.hpp)
\* ------------------------------------------------------------------------

DISABLED == 0
SERIAL == 1
RFCOMM == 2
RFCOMM_SERVER == 3
IOIOUART == 4
DROIDSOAR_V2 == 5
NUNCHUCK == 6
I2CPRESSURESENSOR == 7
IOIOVOLTAGE == 8
AUTO == 9
INTERNAL == 10
TCP_CLIENT == 11
TCP_LISTENER == 12
UDP_LISTENER == 13
PTY == 14
BLE_SENSOR == 15
BLE_HM10 == 16
GLIDER_LINK == 17
ANDROID_USB_SERIAL == 18

PortTypes == 0..18

\* a null pointer (const TCHAR *)nullptr, a null jstring / jobjectArray
Null == "<nullptr>"

\* DeviceConfig::UsesBluetoothMac()
UsesBluetoothMac(config) == config.port_type \in {RFCOMM, BLE_SENSOR, BLE_HM10}

\* ------------------------------------------------------------------------
\* Strings of the model
\* ------------------------------------------------------------------------

\* the serial device paths a configuration or the TTY enumerator may name
SerialPaths == {"/dev/ttyUSB0", "/dev/ttyS0"}

\* the Bluetooth addresses a configuration or the bonded list may name
Macs == {"00:11:22:33:44:55", "66:77:88:99:AA:BB"}

\* the USB serial device ids a configuration or UsbSerialHelper may name
UsbIds == {"0403:6001"}

\* "%u" / "%d" of a UART index
UartNames == <<"0", "1", "2", "3", "4">>
FormatUnsigned(i) == UartNames[i + 1]

\* StringAfterPrefix(path, "/dev/"): the rest of the string, or nullptr
StringAfterPrefix(path) ==
  CASE path = "/dev/ttyUSB0" -> "ttyUSB0"
    [] path = "/dev/ttyUSB1" -> "ttyUSB1"
    [] path = "/dev/ttyS0" -> "ttyS0"
    [] path = "/dev/ttyACM0" -> "ttyACM0"
    [] OTHER -> Null

\* StringCollate order of the display strings DataFieldEnum::Sort compares
CollateOrder == <<"ttyACM0", "ttyS0", "ttyUSB0", "ttyUSB1">>
CollateRank(s) ==
  IF \E i \in 1..Len(CollateOrder) : CollateOrder[i] = s
  THEN CHOOSE i \in 1..Len(CollateOrder) : CollateOrder[i] = s
  ELSE 0

\* ------------------------------------------------------------------------
\* The static table
\* ------------------------------------------------------------------------

port_types == <<
  [type |-> DISABLED, label |-> "Disabled"],
  [type |-> INTERNAL, label |-> "Built-in GPS & sensors"],
  [type |-> RFCOMM_SERVER, label |-> "Bluetooth server"],
  [type |-> DROIDSOAR_V2, label |-> "DroidSoar V2"],
  [type |-> GLIDER_LINK, label |-> "GliderLink traffic receiver"],
  [type |-> NUNCHUCK, label |-> "IOIO switches and Nunchuk"],
  [type |-> I2CPRESSURESENSOR, label |-> "IOIO I2C pressure sensor"],
  [type |-> IOIOVOLTAGE, label |-> "IOIO voltage sensor"],
  [type |-> TCP_CLIENT, label |-> "TCP client"],
  [type |-> TCP_LISTENER, label |-> "TCP port"],
  [type |-> UDP_LISTENER, label |-> "UDP port"],
  [type |-> SERIAL, label |-> Null] >>

\* the number of fixed port types (excludes Serial, Bluetooth and IOIOUart)
num_port_types == Len(port_types) - 1

\* ------------------------------------------------------------------------
\* DataFieldEnum (Form/DataField/Enum.hpp): a list of entries and the index
\* of the current one
\* ------------------------------------------------------------------------

EmptyDataField == [entries |-> << >>, value |-> 0]

Count(d) == Len(d.entries)

\* DataFieldEnum::AddChoice(id, text, display_string, help)
AddChoice(d, id, text, display_string) ==
  [d EXCEPT !.entries = Append(@,
      [id |-> id, string |-> text,
       display |-> IF display_string = Null THEN text ELSE display_string])]

\* DataFieldEnum::Find(unsigned id): index of the first entry, or -1
FindId(d, id) ==
  LET found == {i \in 1..Count(d) : d.entries[i].id = id}
  IN IF found = {} THEN -1
     ELSE (CHOOSE i \in found : \A j \in found : i <= j) - 1

\* DataFieldEnum::Find(const TCHAR *text): index of the first entry, or -1
FindString(d, text) ==
  LET found == {i \in 1..Count(d) : d.entries[i].string = text}
  IN IF found = {} THEN -1
     ELSE (CHOOSE i \in found : \A j \in found : i <= j) - 1

\* DataFieldEnum::Set(unsigned id)
SetId(d, id) ==
  LET i == FindId(d, id)
  IN IF i >= 0 THEN [d EXCEPT !.value = i] ELSE d

\* DataFieldEnum::Set(const TCHAR *text): the field after the call
SetString(d, text) ==
  LET i == FindString(d, text)
  IN IF i >= 0 THEN [d EXCEPT !.value = i] ELSE d

\* DataFieldEnum::Set(const TCHAR *text): the value returned
SetStringFound(d, text) == FindString(d, text) >= 0

\* DataFieldEnum::GetValue()
GetValue(d) == IF Count(d) = 0 THEN 0 ELSE d.entries[d.value + 1].id

\* the comparison DataFieldEnum::Sort hands to std::sort
DisplayLess(a, b) == CollateRank(a.display) < CollateRank(b.display)

\* DataFieldEnum::Sort(startindex): orders entries[startindex..] by display
\* string; the current index is left as it is
Sort(d, startindex) ==
  [d EXCEPT !.entries = SubSeq(@, 1, startindex)
                          \o SortSeq(SubSeq(@, startindex + 1, Len(@)), DisplayLess)]

\* ------------------------------------------------------------------------
\* PortDataField.cpp
\* ------------------------------------------------------------------------

\* faulty variant: the type is shifted by 8 bits only
AddPortId_Shift8(type, count) == type * 2^8 + count

\* faulty variant: the serial number is left out of the id
AddPortId_NoSerial(type, count) == type * 2^16

\* the id AddPort computes: ((unsigned)type << 16) + df.Count(); PortType is
\* 8 bit wide, so the 32 bit sum does not wrap for any count below 2^24
AddPortId(type, count) == type * 2^16 + count

\* faulty variant: the serial number is taken after the entry is appended
AddPort_CountAfter(d, type, text, display_string) ==
  LET id == type * 2^16 + Count(d) + 1
  IN [df |-> AddChoice(d, id, text, display_string), id |-> id]

\* AddPort(df, type, text, display_string): the field after the call (df)
\* and the value returned (id)
AddPort(d, type, text, display_string) ==
  LET id == AddPortId(type, Count(d))
  IN [df |-> AddChoice(d, id, text, display_string), id |-> id]

\* the while loop of DetectSerialPorts over the paths the enumerator yields
RECURSIVE AddSerialPaths(_, _)
AddSerialPaths(d, paths) ==
  IF paths = << >> THEN d
  ELSE LET path == Head(paths)
           display_string == IF StringAfterPrefix(path) = Null
                             THEN path ELSE StringAfterPrefix(path)
       IN AddSerialPaths(AddPort(d, SERIAL, path, display_string).df, Tail(paths))

\* DetectSerialPorts(df) with the outcome of TTYEnumerator
DetectSerialPorts(d, enumerator) ==
  IF enumerator.failed THEN d
  ELSE LET sort_start == Count(d)
           found == enumerator.paths # << >>
           filled == AddSerialPaths(d, enumerator.paths)
       IN IF found THEN Sort(filled, sort_start) ELSE filled

\* FillPortTypes(df, config), from table position i (1-based) on
RECURSIVE FillPortTypesFrom(_, _, _)
FillPortTypesFrom(d, config, i) ==
  IF port_types[i].label = Null THEN d
  ELSE LET added == AddPort(d, port_types[i].type, port_types[i].label,
                            port_types[i].label)
           next == IF port_types[i].type = config.port_type
                   THEN SetId(added.df, added.id) ELSE added.df
       IN FillPortTypesFrom(next, config, i + 1)

\* faulty variant: the loop over the table starts at its second entry
FillPortTypes_FromSecond(d, config) == FillPortTypesFrom(d, config, 2)

FillPortTypes(d, config) == FillPortTypesFrom(d, config, 1)

\* faulty variant: the value is appended without looking for it first
SetPort_AlwaysAdd(d, type, value) ==
  LET added == AddPort(d, type, value, Null)
  IN SetId(added.df, added.id)

\* SetPort(df, type, value)
SetPort(d, type, value) ==
  IF ~SetStringFound(d, value)
  THEN LET added == AddPort(d, type, value, Null)
       IN SetId(added.df, added.id)
  ELSE SetString(d, value)

\* faulty variant: the configured path is not added to what was detected
FillSerialPorts_DetectOnly(d, config, enumerator) ==
  DetectSerialPorts(d, enumerator)

\* FillSerialPorts(df, config)
FillSerialPorts(d, config, enumerator) ==
  LET detected == DetectSerialPorts(d, enumerator)
  IN IF config.port_type = SERIAL
     THEN SetPort(detected, config.port_type, config.path)
     ELSE detected

\* BluetoothHelper::GetNameFromAddress: the name of a device, or nullptr
GetNameFromAddress(bluetooth_mac) ==
  IF bluetooth_mac = "00:11:22:33:44:55" THEN "LXNAV" ELSE Null

\* SetBluetoothPort(df, type, bluetooth_mac)
SetBluetoothPort(d, type, bluetooth_mac, helper) ==
  IF ~SetStringFound(d, bluetooth_mac)
  THEN LET name == IF helper THEN GetNameFromAddress(bluetooth_mac) ELSE Null
           added == AddPort(d, type, bluetooth_mac, name)
       IN SetId(added.df, added.id)
  ELSE SetString(d, bluetooth_mac)

\* the for loop of FillAndroidBluetoothPorts over the bonded devices
RECURSIVE AddBonded(_, _)
AddBonded(d, bonded) ==
  IF bonded = << >> THEN d
  ELSE LET dev == Head(bonded)
           portType == IF dev.devType # Null /\ dev.devType = "BLE"
                       THEN BLE_HM10 ELSE RFCOMM
       IN IF dev.address = Null
          THEN AddBonded(d, Tail(bonded))
          ELSE AddBonded(AddPort(d, portType, dev.address, dev.name).df,
                         Tail(bonded))

\* FillAndroidBluetoothPorts(df, config); bt.helper: bluetooth_helper is
\* not nullptr, bt.bonded: what GetBondedList returns
FillAndroidBluetoothPorts(d, config, bt) ==
  IF ~bt.helper THEN d
  ELSE LET listed == IF bt.bonded.valid THEN AddBonded(d, bt.bonded.list) ELSE d
       IN IF UsesBluetoothMac(config) /\ config.bluetooth_mac # ""
          THEN SetBluetoothPort(listed, config.port_type, config.bluetooth_mac,
                                bt.helper)
          ELSE listed

\* StringFormat(display_string, "USB: %s", name)
StringFormatUsb(name) ==
  CASE name = "CH340" -> "USB: CH340"
    [] name = "FT232" -> "USB: FT232"
    [] OTHER -> "USB: "

\* the for loop of FillAndroidUsbSerialPorts over UsbSerialHelper::list
RECURSIVE AddUsbSerial(_, _)
AddUsbSerial(d, list) ==
  IF list = << >> THEN d
  ELSE LET dev == Head(list)
       IN IF dev.id = Null \/ dev.name = Null
          THEN AddUsbSerial(d, Tail(list))
          ELSE AddUsbSerial(AddPort(d, ANDROID_USB_SERIAL, dev.id,
                                    StringFormatUsb(dev.name)).df,
                            Tail(list))

\* FillAndroidUsbSerialPorts(df, config); list: what UsbSerialHelper::list
\* returns
FillAndroidUsbSerialPorts(d, config, list) ==
  IF ~list.valid THEN d
  ELSE LET listed == AddUsbSerial(d, list.list)
       IN IF config.port_type = ANDROID_USB_SERIAL /\ config.path # ""
          THEN SetPort(listed, ANDROID_USB_SERIAL, config.path)
          ELSE listed

\* FillAndroidIOIOPorts(df, config), from UART i on
RECURSIVE FillAndroidIOIOPortsFrom(_, _, _)
FillAndroidIOIOPortsFrom(d, config, i) ==
  IF ~(i < NumberUarts) THEN d
  ELSE LET added == AddPort(d, IOIOUART, FormatUnsigned(i), "IOIO UART")
           next == IF config.port_type = IOIOUART /\ config.ioio_uart_id = i
                   THEN SetId(added.df, added.id) ELSE added.df
       IN FillAndroidIOIOPortsFrom(next, config, i + 1)

FillAndroidIOIOPorts(d, config) == FillAndroidIOIOPortsFrom(d, config, 0)

\* FillPorts(df, config)
FillPorts(d, config, env) ==
  FillAndroidIOIOPorts(
    FillAndroidUsbSerialPorts(
      FillAndroidBluetoothPorts(
        FillSerialPorts(FillPortTypes(d, config), config, env.serial),
        config, env.bt),
      config, env.usb),
    config)

\* the label loop at the end of SetPort(df, config): the label of the first
\* table entry of the type, or nullptr
LabelOf(type) ==
  IF \E i \in 1..num_port_types : port_types[i].type = type
  THEN port_types[CHOOSE i \in 1..num_port_types :
                     /\ port_types[i].type = type
                     /\ \A j \in 1..(i-1) : port_types[j].type # type].label
  ELSE Null

\* SetPort(df, config)
SetPortConfig(d, config, helper) ==
  CASE config.port_type \in {SERIAL, ANDROID_USB_SERIAL} ->
         SetPort(d, config.port_type, config.path)
    [] config.port_type \in {BLE_SENSOR, BLE_HM10, RFCOMM} ->
         SetBluetoothPort(d, config.port_type, config.bluetooth_mac, helper)
    [] config.port_type = IOIOUART ->
         SetString(d, FormatUnsigned(config.ioio_uart_id))
    [] OTHER ->
         IF LabelOf(config.port_type) # Null
         THEN SetString(d, LabelOf(config.port_type)) ELSE d

\* faulty variant: the id is always decoded by its upper 16 bits
GetPortTypeOfId_ShiftOnly(port) == port \div 2^16

\* the decoding of GetPortType, of the current id
GetPortTypeOfId(port) ==
  IF port < num_port_types THEN port_types[port + 1].type ELSE port \div 2^16

\* GetPortType(df)
GetPortType(d) == GetPortTypeOfId(GetValue(d))

\* ------------------------------------------------------------------------
\* Inputs: device configurations and the outcomes of device enumeration
\* ------------------------------------------------------------------------

\* a null jobjectArray; a valid one carries its elements in list
NullArray == [valid |-> FALSE, list |-> << >>]

\* the sequences without repetition over the set S, of length up to n
DistinctSeqs(S, n) ==
  UNION {{s \in [1..k -> S] : \A i, j \in 1..k : i # j => s[i] # s[j]} : k \in 0..n}

MakeConfig(type, path, mac, uart) ==
  [port_type |-> type, path |-> path, bluetooth_mac |-> mac, ioio_uart_id |-> uart]

\* the DeviceConfig records the dialog is opened with
Configs ==
  {MakeConfig(t, "", "", 0) :
     t \in PortTypes \ {SERIAL, ANDROID_USB_SERIAL, RFCOMM, BLE_HM10, BLE_SENSOR, IOIOUART}}
  \cup {MakeConfig(SERIAL, p, "", 0) : p \in SerialPaths \cup {""}}
  \cup {MakeConfig(ANDROID_USB_SERIAL, p, "", 0) : p \in UsbIds \cup {""}}
  \cup {MakeConfig(t, "", m, 0) : t \in {RFCOMM, BLE_HM10, BLE_SENSOR}, m \in Macs \cup {""}}
  \cup {MakeConfig(IOIOUART, "", "", u) : u \in 0..NumberUarts}

\* outcomes of TTYEnumerator: failed, or the paths in directory order
SerialEnumerations ==
  {[failed |-> TRUE, paths |-> << >>]}
  \cup {[failed |-> FALSE, paths |-> s] :
          s \in DistinctSeqs(SerialPaths, Cardinality(SerialPaths))}

\* one (address, name, type) triple of BluetoothHelper::GetBondedList
BondedDevices ==
  {[address |-> m, name |-> GetNameFromAddress(m), devType |-> t] :
     m \in Macs, t \in {"BLE", "CLASSIC", Null}}
  \cup {[address |-> Null, name |-> Null, devType |-> "BLE"]}

\* the bonded lists: every address at most once, and a triple without
\* address only in front of a single device
BondedLists ==
  {s \in DistinctSeqs(BondedDevices, Cardinality(Macs)) :
     /\ \A i, j \in 1..Len(s) : i # j => s[i].address # s[j].address
     /\ \A i \in 1..Len(s) :
          /\ s[i].address = Null => i = 1 /\ Len(s) = 2
          /\ (i > 1 /\ s[1].address # Null) => s[1].address = "00:11:22:33:44:55"}

\* outcomes of the Bluetooth enumeration: no helper, no list, a list
BluetoothEnumerations ==
  {[helper |-> FALSE, bonded |-> NullArray], [helper |-> TRUE, bonded |-> NullArray]}
  \cup {[helper |-> TRUE, bonded |-> [valid |-> TRUE, list |-> s]] : s \in BondedLists}

\* one (id, name) pair of UsbSerialHelper::list
UsbDevices ==
  {[id |-> u, name |-> n] : u \in UsbIds, n \in {"CH340", Null}}
  \cup {[id |-> Null, name |-> "FT232"]}

\* outcomes of the USB enumeration: no list, a list
UsbEnumerations ==
  {NullArray}
  \cup {[valid |-> TRUE, list |-> s] :
          s \in {q \in DistinctSeqs(UsbDevices, Cardinality(UsbIds)) :
                   \A i, j \in 1..Len(q) : i # j => q[i].id # q[j].id}}

Environments ==
  [serial : SerialEnumerations, bt : BluetoothEnumerations, usb : UsbEnumerations]

\* no enumeration has been made
NoSerialEnumeration == [failed |-> TRUE, paths |-> << >>]

\* ------------------------------------------------------------------------
\* State
\* ------------------------------------------------------------------------

VARIABLES
  df,        \* the DataFieldEnum of the dialog
  phase,     \* "new": constructed and empty; "filled": FillPorts has run
  config,    \* the DeviceConfig FillPorts was called with
  serial,    \* what the TTY enumerator yielded during FillPorts
  bluetooth_helper,  \* the global bluetooth_helper is not nullptr
  calls,     \* number of Set calls since FillPorts
  last,      \* the last operation on df and its arguments
  codec,     \* the codec probe: a type, a sequence number, the id, the type decoded
  brush      \* the Brush

vars == <<df, phase, config, serial, bluetooth_helper, calls, last, codec, brush>>

NoCodec == [step |-> "idle", type |-> 0, n |-> 0, id |-> 0, decoded |-> 0]
NoBrush == [build |-> "none"]

\* the dialog has created its DataFieldEnum and not filled it yet
NewDialog ==
  /\ df = EmptyDataField
  /\ phase = "new"
  /\ config = MakeConfig(DISABLED, "", "", 0)
  /\ serial = NoSerialEnumeration
  /\ calls = 0
  /\ last = [op |-> "new"]

InitPorts ==
  /\ NewDialog
  /\ bluetooth_helper \in BOOLEAN

Init ==
  /\ InitPorts
  /\ codec = NoCodec
  /\ brush = NoBrush

\* the dialog calls FillPorts(df, config) on the field it has just created
DoFillPorts ==
  /\ phase = "new"
  /\ \E c \in Configs, e \in Environments :
       /\ e.bt.helper = bluetooth_helper
       /\ df' = FillPorts(df, c, e)
       /\ config' = c
       /\ serial' = e.serial
  /\ phase' = "filled"
  /\ calls' = 0
  /\ last' = [op |-> "FillPorts"]
  /\ UNCHANGED <<bluetooth_helper, codec, brush>>

\* SetPort(df, type, value)
DoSetPort ==
  /\ phase = "filled"
  /\ calls < MaxSetCalls
  /\ \E t \in {SERIAL, ANDROID_USB_SERIAL} :
       \E v \in (IF t = SERIAL THEN SerialPaths ELSE UsbIds) :
         /\ df' = SetPort(df, t, v)
         /\ last' = [op |-> "SetPort"]
  /\ calls' = calls + 1
  /\ UNCHANGED <<phase, config, serial, bluetooth_helper, codec, brush>>

\* SetBluetoothPort(df, type, bluetooth_mac)
DoSetBluetoothPort ==
  /\ phase = "filled"
  /\ calls < MaxSetCalls
  /\ \E t \in {RFCOMM, BLE_HM10, BLE_SENSOR}, m \in Macs :
       /\ df' = SetBluetoothPort(df, t, m, bluetooth_helper)
       /\ last' = [op |-> "SetBluetoothPort"]
  /\ calls' = calls + 1
  /\ UNCHANGED <<phase, config, serial, bluetooth_helper, codec, brush>>

\* SetPort(df, config), with the configuration the list was filled for
DoSetPortConfig ==
  /\ phase = "filled"
  /\ calls < MaxSetCalls
  /\ df' = SetPortConfig(df, config, bluetooth_helper)
  /\ last' = [op |-> "SetPortConfig"]
  /\ calls' = calls + 1
  /\ UNCHANGED <<phase, config, serial, bluetooth_helper, codec, brush>>

\* the dialog is closed: the list is discarded, the next one starts empty
Close ==
  /\ phase = "filled"
  /\ df' = EmptyDataField
  /\ phase' = "new"
  /\ config' = MakeConfig(DISABLED, "", "", 0)
  /\ serial' = NoSerialEnumeration
  /\ calls' = 0
  /\ last' = [op |-> "new"]
  /\ UNCHANGED <<bluetooth_helper, codec, brush>>

Next ==
  \/ DoFillPorts
  \/ DoSetPort
  \/ DoSetBluetoothPort
  \/ DoSetPortConfig
  \/ Close

Spec == Init /\ [][Next]_vars


\* ------------------------------------------------------------------------
\* The id codec on its own: AddPort's encoding and GetPortType's decoding
\* ------------------------------------------------------------------------

\* the sequence numbers (df.Count() at insertion) tried: all 16 bit wide
SeqNumbers ==
  (0..(num_port_types + 1)) \cup {255, 256, 4096, 2^16 - 2, 2^16 - 1}

\* the ids GetPortType is tried on directly
ProbeIds ==
  (0..(num_port_types + 1))
  \cup {2^16 - 1, 2^16, 2^16 + 1, 2^17 - 1, 2^17, 255 * 2^16 + 2^16 - 1,
        2^24, 2^30 + (2^30 - 1)}
  \cup {AddPortId(t, n) : t \in {SERIAL, BLE_HM10}, n \in {0, 7, 2^16 - 1}}

InitCodec ==
  /\ NewDialog
  /\ bluetooth_helper = FALSE
  /\ brush = NoBrush
  /\ \E t \in PortTypes, n \in SeqNumbers :
       codec = [step |-> "input", type |-> t, n |-> n, id |-> 0, decoded |-> 0]

\* AddPort computes the id of the entry it appends to a list of n entries
CodecEncode ==
  /\ codec.step = "input"
  /\ codec' = [codec EXCEPT !.step = "encoded",
                            !.id = AddPortId(codec.type, codec.n)]
  /\ UNCHANGED <<df, phase, config, serial, bluetooth_helper, calls, last, brush>>

\* the entry is the current one and GetPortType decodes its id
CodecDecode ==
  /\ codec.step \in {"encoded", "raw"}
  /\ codec' = [codec EXCEPT !.step = IF codec.step = "raw" THEN "probed" ELSE "decoded",
                            !.decoded = GetPortTypeOfId(codec.id)]
  /\ UNCHANGED <<df, phase, config, serial, bluetooth_helper, calls, last, brush>>

\* the current id is any id, whatever produced it
CodecProbe ==
  /\ codec.step \in {"input", "probed"}
  /\ \E id \in ProbeIds :
       codec' = [step |-> "raw", type |-> 0, n |-> 0, id |-> id, decoded |-> 0]
  /\ UNCHANGED <<df, phase, config, serial, bluetooth_helper, calls, last, brush>>

NextCodec ==
  \/ CodecEncode
  \/ CodecDecode
  \/ CodecProbe

SpecCodec == InitCodec /\ [][NextCodec]_vars

\* ------------------------------------------------------------------------
\* Brush.cpp
\* ------------------------------------------------------------------------

Colors == 1..NumColors

\* the values of a HBRUSH: NULL, or one of the handles of the GDI
NULL == 0
Handles == 1..NumHandles

\* ::DeleteObject(brush): the handle is no longer live; deleting a handle
\* that is not live is recorded
DeleteObject(b, h) ==
  [b EXCEPT !.live = @ \ {h},
            !.double_release = @ \/ h \notin b.live]

\* faulty variant: the handle is deleted and not set to NULL
BrushReset_KeepHandle(b) ==
  IF b.build = "gdi"
  THEN (IF b.brush # NULL THEN DeleteObject(b, b.brush) ELSE b)
  ELSE [b EXCEPT !.hollow = TRUE]

\* Brush::reset()
BrushReset(b) ==
  IF b.build = "gdi"
  THEN (IF b.brush # NULL
        THEN [DeleteObject(b, b.brush) EXCEPT !.brush = NULL]
        ELSE b)
  ELSE [b EXCEPT !.hollow = TRUE]

\* Brush::set(const Color c); created: what ::CreateSolidBrush(c) returns
BrushSetColor(b, c, created) ==
  IF b.build = "gdi"
  THEN [BrushReset(b) EXCEPT !.brush = created,
                             !.live = @ \cup ({created} \ {NULL})]
  ELSE [b EXCEPT !.hollow = FALSE, !.color = c]

\* Brush::set(const Bitmap &bitmap); created: what ::CreatePatternBrush
\* returns
BrushSetBitmap(b, created) ==
  [BrushReset(b) EXCEPT !.brush = created,
                        !.live = @ \cup ({created} \ {NULL})]

\* Brush::defined() (Screen/Brush.hpp)
BrushDefined(b) == IF b.build = "gdi" THEN b.brush # NULL ELSE ~b.hollow

\* what a Create...Brush call can return: NULL, or a handle not in use
CreateResults(b) == {NULL} \cup (Handles \ b.live)

\* the Brush after its constructor, and what has been called on it:
\* last_call, with the colour and the result of the creation of a set
InitBrush ==
  /\ NewDialog
  /\ bluetooth_helper = FALSE
  /\ codec = NoCodec
  /\ \E build \in {"gdi", "opengl"}, c \in Colors :
       brush = [build |-> build,
                hollow |-> TRUE,
                color |-> IF build = "gdi" THEN 0 ELSE c,
                brush |-> NULL,
                live |-> {},
                double_release |-> FALSE,
                last_call |-> "none",
                last_color |-> 0,
                last_created |-> NULL,
                ncalls |-> 0]

DoBrushSetColor ==
  /\ brush.ncalls < MaxBrushCalls
  /\ \E c \in Colors, created \in CreateResults(BrushReset(brush)) :
       brush' = [BrushSetColor(brush, c, created) EXCEPT
                   !.last_call = "set",
                   !.last_color = c,
                   !.last_created = created,
                   !.ncalls = @ + 1]
  /\ UNCHANGED <<df, phase, config, serial, bluetooth_helper, calls, last, codec>>

\* HAVE_HATCHED_BRUSH: the GDI build only
DoBrushSetBitmap ==
  /\ brush.build = "gdi"
  /\ brush.ncalls < MaxBrushCalls
  /\ \E created \in CreateResults(BrushReset(brush)) :
       brush' = [BrushSetBitmap(brush, created) EXCEPT
                   !.last_call = "set",
                   !.last_color = 0,
                   !.last_created = created,
                   !.ncalls = @ + 1]
  /\ UNCHANGED <<df, phase, config, serial, bluetooth_helper, calls, last, codec>>

DoBrushReset ==
  /\ brush.ncalls < MaxBrushCalls
  /\ brush' = [BrushReset(brush) EXCEPT !.last_call = "reset", !.ncalls = @ + 1]
  /\ UNCHANGED <<df, phase, config, serial, bluetooth_helper, calls, last, codec>>

NextBrush ==
  \/ DoBrushSetColor
  \/ DoBrushSetBitmap
  \/ DoBrushReset

SpecBrush == InitBrush /\ [][NextBrush]_vars


\* ------------------------------------------------------------------------
\* Properties
\* ------------------------------------------------------------------------

\* C1 (as amended): decoding the id AddPort builds for (t, n) returns t for
\* every port type t of nonzero numeric value and every 16 bit n; for the
\* type of value 0 it does when n = 0 or n >= num_port_types.
C1_EncodeDecode ==
  (/\ codec.step = "decoded"
   /\ (codec.type # 0 \/ codec.n = 0 \/ codec.n >= num_port_types))
  => codec.decoded = codec.type

\* C1, witness: type 0 with the first sequence number at the threshold
C1_Witness ==
  /\ codec.step = "decoded"
  /\ codec.type = DISABLED
  /\ codec.n = num_port_types
  /\ codec.decoded = DISABLED

\* C1 as stated: decoding the id AddPort builds for (t, n) returns t for
\* every port type t and every 16 bit n.
C1_Original == codec.step = "decoded" => codec.decoded = codec.type

\* C2 as stated: after FillPorts(df, config) with an address-bearing
\* configuration, whatever device enumeration yielded, the list holds an
\* entry whose value is the configured address, and it is the selected one.
C2_ConfiguredAddressShown ==
  LET address == IF config.port_type \in {SERIAL, ANDROID_USB_SERIAL}
                 THEN config.path ELSE config.bluetooth_mac
  IN (/\ phase = "filled"
      /\ last.op = "FillPorts"
      /\ config.port_type \in {SERIAL, ANDROID_USB_SERIAL, RFCOMM, BLE_HM10, BLE_SENSOR}
      /\ address # "")
     => /\ \E i \in 1..Count(df) : df.entries[i].string = address
        /\ df.entries[df.value + 1].string = address

\* C3: SetPort and SetBluetoothPort are idempotent: applied a second time
\* with the same type and value, the number of entries and the selected
\* entry stay as they were after the first application; the first
\* application appends an entry only when no entry matches the value.
C3_SetPortIdempotent ==
  /\ \A t \in {SERIAL, ANDROID_USB_SERIAL}, v \in SerialPaths \cup UsbIds :
       LET once == SetPort(df, t, v)
           twice == SetPort(once, t, v)
       IN /\ Count(twice) = Count(once)
          /\ twice.value = once.value
          /\ once.entries[once.value + 1].string = v
          /\ Count(once) > Count(df)
               <=> ~\E i \in 1..Count(df) : df.entries[i].string = v
  /\ \A t \in {RFCOMM, BLE_HM10, BLE_SENSOR}, m \in Macs :
       LET once == SetBluetoothPort(df, t, m, bluetooth_helper)
           twice == SetBluetoothPort(once, t, m, bluetooth_helper)
       IN /\ Count(twice) = Count(once)
          /\ twice.value = once.value
          /\ once.entries[once.value + 1].string = m
          /\ Count(once) > Count(df)
               <=> ~\E i \in 1..Count(df) : df.entries[i].string = m

\* C3, witness: SetPort has appended and selected a value that FillPorts
\* had not listed (the IOIO UART entries end the list FillPorts builds)
C3_Witness ==
  /\ phase = "filled"
  /\ last.op = "SetPort"
  /\ df.value = Count(df) - 1
  /\ df.entries[Count(df)].string = "/dev/ttyS0"
  /\ SetPort(df, SERIAL, "/dev/ttyS0") = df

\* C4: for every position i of the static table, selecting the entry that
\* FillPortTypes created for position i makes GetPortType return the type
\* of position i.
C4_StaticRoundTrip ==
  phase = "filled" =>
    \A i \in 1..num_port_types :
      /\ df.entries[i].string = port_types[i].label
      /\ GetPortType(SetId(df, df.entries[i].id)) = port_types[i].type

\* C4, witness: FillPorts has selected the TCP client entry of the table
C4_Witness ==
  /\ phase = "filled"
  /\ last.op = "FillPorts"
  /\ config.port_type = TCP_CLIENT
  /\ df.entries[df.value + 1].string = "TCP client"
  /\ GetPortType(df) = TCP_CLIENT

C6_ConfiguredSerialPath ==
  (/\ phase = "filled"
   /\ last.op \in {"FillPorts", "SetPortConfig"}
   /\ config.port_type = SERIAL
   /\ config.path \in SerialPaths
   /\ serial.paths = << >>)
  => /\ Cardinality({i \in 1..Count(df) : df.entries[i].string = config.path}) = 1
     /\ df.entries[df.value + 1].string = config.path

\* C6, witness: the enumeration succeeded and was empty, the path is the
\* selected entry after FillPorts and SetPort(df, config)
C6_Witness ==
  /\ phase = "filled"
  /\ last.op = "SetPortConfig"
  /\ config.port_type = SERIAL
  /\ config.path = "/dev/ttyUSB0"
  /\ ~serial.failed
  /\ serial.paths = << >>
  /\ df.entries[df.value + 1].string = "/dev/ttyUSB0"

\* C7: no two entries of the list have the same id: the list holds as many
\* ids as entries.
C7_UniqueIds ==
  Cardinality({df.entries[i].id : i \in 1..Count(df)}) = Count(df)

\* C7, witness: the sort has moved a serial port in front of one added
\* before it, and a Set call has appended an entry after FillPorts
C7_Witness ==
  /\ phase = "filled"
  /\ last.op \in {"SetPort", "SetBluetoothPort"}
  /\ df.value = Count(df) - 1
  /\ \E i \in 1..(Count(df) - 1) :
       /\ df.entries[i].id \div 2^16 = SERIAL
       /\ df.entries[i + 1].id \div 2^16 = SERIAL
       /\ df.entries[i].id > df.entries[i + 1].id

C9_ConfiguredTypeRoundTrip ==
  (/\ phase = "filled"
   /\ last.op = "SetPortConfig"
   /\ calls = 1
   /\ \/ \E i \in 1..num_port_types : port_types[i].type = config.port_type
      \/ config.port_type \in {SERIAL, ANDROID_USB_SERIAL, RFCOMM, BLE_HM10, BLE_SENSOR}
      \/ config.port_type = IOIOUART /\ config.ioio_uart_id < NumberUarts)
  => GetPortType(df) = config.port_type

\* C10 (as amended): the brush is defined exactly when the last call was a
\* set (in the GDI build: a set whose native brush was created); without
\* GDI a set leaves hollow false and the colour set, a reset leaves hollow
\* true; reset is idempotent; in the GDI build the only live native handle
\* is the one the brush holds, and no handle is released twice.
C10_BrushLifecycle ==
  brush.build # "none" =>
    /\ brush.build = "opengl" =>
         /\ BrushDefined(brush) <=> brush.last_call = "set"
         /\ brush.last_call = "set" => ~brush.hollow /\ brush.color = brush.last_color
         /\ brush.last_call = "reset" => brush.hollow
    /\ brush.build = "gdi" =>
         /\ BrushDefined(brush) <=> (brush.last_call = "set" /\ brush.last_created # NULL)
         /\ brush.last_call = "reset" => brush.brush = NULL
         /\ brush.live = {brush.brush} \ {NULL}
         /\ ~brush.double_release
    /\ BrushReset(BrushReset(brush)) = BrushReset(brush)

\* C10, witness: a GDI brush that holds the handle of its latest set, after
\* earlier calls
C10_Witness ==
  /\ brush.build = "gdi"
  /\ brush.ncalls >= 3
  /\ brush.last_call = "set"
  /\ brush.brush # NULL
  /\ brush.live = {brush.brush}

\* C10 as stated: the brush is defined exactly when the last call was a
\* set, in either build; the rest as above.
C10_Original ==
  brush.build # "none" =>
    /\ BrushDefined(brush) <=> brush.last_call = "set"
    /\ brush.build = "opengl" =>
         /\ brush.last_call = "set" => ~brush.hollow /\ brush.color = brush.last_color
         /\ brush.last_call = "reset" => brush.hollow
    /\ brush.build = "gdi" =>
         /\ brush.live = {brush.brush} \ {NULL}
         /\ ~brush.double_release
    /\ BrushReset(BrushReset(brush)) = BrushReset(brush)

=============================================================================
